---- MODULE Spec2Model ----
(***************************************************************************)
(* Model of client/src/pages/qr-generator.tsx (live-qr-generator).         *)
(*                                                                         *)
(* Part I   compressImageToSize: one run of the compression promise, one   *)
(*          action per callback (img.onload, img.onerror, the compress     *)
(*          timer).  Specifications SpecCompress, FairCompress and         *)
(*          SpecPayload.                                                   *)
(* Part II  the QRGenerator component: its React state, one action per     *)
(*          event handler, each followed by the effects its state change   *)
(*          triggers.  A run of compressImageToSize appears here as a      *)
(*          promise in flight that settles later with the outcome Part I   *)
(*          allows (SpecForm, SpecContact, SpecImage, SpecUpload), or is   *)
(*          followed attempt by attempt with the actions of Part I         *)
(*          (SpecEmbed).                                                   *)
(***************************************************************************)
EXTENDS Integers, Sequences, FiniteSets, TLC

VARIABLES
    \* ---- one run of compressImageToSize (lines 105-175) ----
    img,          \* the source image: its intrinsic size and whether it decodes
    objectUrl,    \* "live" while the closure holds the object URL, "null" after cleanup
    revoked,      \* number of URL.revokeObjectURL calls made by cleanup
    width,        \* working width of the canvas
    height,       \* working height of the canvas
    quality,      \* working JPEG quality, an IEEE double (see Quality below)
    attempts,     \* attempts made so far
    timer,        \* TRUE while a setTimeout(compress, 5) is pending
    promise,      \* "loading", "pending" (loaded, not settled), "resolved", "rejected"
    settled,      \* what the promise settled with: a data URL or an error
    lastDataUrl,  \* what canvas.toDataURL returned in the latest attempt
    \* ---- React state of QRGenerator (lines 23-48) ----
    inputType, textContent, urlContent, contactInfo, qrColor, bgColor, qrSize,
    qrCodeGenerated, urlError, imageMode, imageUrl, imageFile, imagePreview,
    embedDataUrl, imageUrlError, imageFileError, isCompressing,
    \* ---- what the component acts on ----
    mounted,      \* TRUE until React unmounts the component
    canvas,       \* what canvasRef.current shows
    blobUrls,     \* preview object URLs created and not yet revoked
    inflight,     \* compressImageToSize promises not yet settled, per file name
    encodeCalls,  \* QRCode.toCanvas / toString calls made by the latest step
    toasts,       \* toast titles shown by the latest step
    download,     \* the file saved by the latest step, if any
    offered       \* the file picked or dropped in the latest step, if any

cvars == <<img, objectUrl, revoked, width, height, quality, attempts, timer,
           promise, settled, lastDataUrl>>

uvars == <<inputType, textContent, urlContent, contactInfo, qrColor, bgColor,
           qrSize, qrCodeGenerated, urlError, imageMode, imageUrl, imageFile,
           imagePreview, embedDataUrl, imageUrlError, imageFileError,
           isCompressing, mounted, canvas, blobUrls, inflight, encodeCalls,
           toasts, download, offered>>

vars == <<cvars, uvars>>

-----------------------------------------------------------------------------
(* Bounds of the model.                                                    *)

\* Largest intrinsic dimension of a source image the model enumerates.
MaxDim == 130

\* Longest base64 body enumerated where the payload size is measured.
MaxBody == 1340

-----------------------------------------------------------------------------
(* Program constants of compressImageToSize.                               *)

maxSizeBytes == 1000
maxAttempts == 50
StartDim == 128
FloorDim == 24

-----------------------------------------------------------------------------
(* IEEE doubles reached by `quality`.  A double is written                 *)
(* [h |-> hundredths, e |-> excess], its value being h/100 + e * 10^-17.   *)
(* 0.5 - 0.05 - 0.05 - ... in binary64 gives 0.5, 0.45, 0.4,               *)
(* 0.35000000000000003, 0.30000000000000004, 0.25000000000000006,          *)
(* 0.20000000000000007, 0.15000000000000008, 0.10000000000000007,          *)
(* 0.05000000000000007, and the last of these is still > 0.05.             *)

Dbl(h, e) == [h |-> h, e |-> e]
StartQuality == Dbl(50, 0)
FloorQuality == Dbl(5, 0)

\* a > b on doubles
DblGt(a, b) == a.h > b.h \/ (a.h = b.h /\ a.e > b.e)
DblLe(a, b) == ~DblGt(a, b)

\* q - 0.05 rounded to binary64, for the doubles the loop reaches.
Minus005(q) ==
    CASE q = Dbl(50, 0) -> Dbl(45, 0)
      [] q = Dbl(45, 0) -> Dbl(40, 0)
      [] q = Dbl(40, 0) -> Dbl(35, 3)
      [] q = Dbl(35, 3) -> Dbl(30, 4)
      [] q = Dbl(30, 4) -> Dbl(25, 6)
      [] q = Dbl(25, 6) -> Dbl(20, 7)
      [] q = Dbl(20, 7) -> Dbl(15, 8)
      [] q = Dbl(15, 8) -> Dbl(10, 7)
      [] q = Dbl(10, 7) -> Dbl(5, 7)
      [] q = Dbl(5, 7)  -> Dbl(0, 7)
      [] q = Dbl(5, 0)  -> Dbl(0, 0)

DblMax(a, b) == IF DblGt(b, a) THEN b ELSE a

Min(a, b) == IF a < b THEN a ELSE b
Max(a, b) == IF a > b THEN a ELSE b

-----------------------------------------------------------------------------
(* Data URLs.  canvas.toDataURL('image/jpeg', q) returns                   *)
(* "data:image/jpeg;base64," followed by a base64 body; the body is kept   *)
(* as its length `len` and its number `pad` of trailing '=' characters.    *)
(* A data URL without "base64," (toDataURL of an empty canvas, "data:,")   *)
(* has base64 = FALSE and only its total length.                           *)

DataUrl(len, pad) == [base64 |-> TRUE, len |-> len, pad |-> pad]

\* '' where a data URL is expected
EmptyDataUrl == [base64 |-> FALSE, len |-> 0, pad |-> 0]
JpegHeaderLen == 23

\* dataUrl.length
DataUrlLength(d) == IF d.base64 THEN JpegHeaderLen + d.len ELSE d.len

\* Mutant of getBase64PayloadBytes: the length of the data URL string.
getBase64PayloadBytes_StringLength(dataUrl) == DataUrlLength(dataUrl)

\* getBase64PayloadBytes, lines 94-103
getBase64PayloadBytes(dataUrl) ==
    IF ~dataUrl.base64
    THEN DataUrlLength(dataUrl)
    ELSE LET padding == dataUrl.pad
         IN  ((dataUrl.len - padding) * 3) \div 4

\* What the JPEG encoder may return for one attempt: bodies whose decoded
\* size lies on both sides of the budget (997..1002 bytes).
EncoderOutputs == { DataUrl(n, p) : n \in {1332, 1336}, p \in 0..2 }

-----------------------------------------------------------------------------
(* compressImageToSize                                                     *)

Dims == {1, 20, FloorDim, FloorDim + 1, 100, StartDim, MaxDim}
Images == [width : Dims, height : Dims, decodes : BOOLEAN]

NoResult == [kind |-> "none"]
Resolved(dataUrl) == [kind |-> "dataUrl", dataUrl |-> dataUrl]
TooLarge(payloadBytes, limit) ==
    [kind |-> "tooLarge", payloadBytes |-> payloadBytes, limit |-> limit]
LoadFailed == [kind |-> "loadFailed"]

\* Mutant of StopsLoop: the attempt bound is forgotten.
StopsLoop_NoAttemptBound(payloadBytes, n, w, q) ==
    \/ payloadBytes <= maxSizeBytes
    \/ (w <= FloorDim /\ DblLe(q, FloorQuality))

\* line 142: the loop stops on this attempt
StopsLoop(payloadBytes, n, w, q) ==
    \/ payloadBytes <= maxSizeBytes
    \/ n >= maxAttempts
    \/ (w <= FloorDim /\ DblLe(q, FloorQuality))

\* Mutant of RejectsOnStop: a stopped loop always resolves.
RejectsOnStop_Never(payloadBytes) == FALSE

\* line 143: a stopped loop rejects instead of resolving
RejectsOnStop(payloadBytes) == payloadBytes > maxSizeBytes

\* Mutant of Tighten: the dimensions shrink by a quarter instead of a tenth.
Tighten_ByQuarter(w, h, q) ==
    IF DblGt(q, FloorQuality)
    THEN <<w, h, DblMax(FloorQuality, Minus005(q))>>
    ELSE <<Max(FloorDim, (w * 3) \div 4), Max(FloorDim, (h * 3) \div 4),
           StartQuality>>

\* Mutant of Tighten: the quality is not reset when the dimensions shrink.
Tighten_NoReset(w, h, q) ==
    IF DblGt(q, FloorQuality)
    THEN <<w, h, DblMax(FloorQuality, Minus005(q))>>
    ELSE <<Max(FloorDim, (w * 9) \div 10), Max(FloorDim, (h * 9) \div 10), q>>

\* lines 152-158: the next attempt's <<width, height, quality>>
Tighten(w, h, q) ==
    IF DblGt(q, FloorQuality)
    THEN <<w, h, DblMax(FloorQuality, Minus005(q))>>
    ELSE <<Max(FloorDim, (w * 9) \div 10), Max(FloorDim, (h * 9) \div 10),
           StartQuality>>

\* lines 129-162: one call of compress() at attempt number n with the
\* working values w, h, q, the encoder returning dataUrl
compress(n, w, h, q, dataUrl) ==
    LET payloadBytes == getBase64PayloadBytes(dataUrl)
        next == Tighten(w, h, q)
    IN  /\ attempts' = n
        /\ lastDataUrl' = dataUrl
        /\ IF StopsLoop(payloadBytes, n, w, q)
           THEN /\ IF RejectsOnStop(payloadBytes)
                   THEN /\ promise' = "rejected"
                        /\ settled' = TooLarge(payloadBytes, maxSizeBytes)
                   ELSE /\ promise' = "resolved"
                        /\ settled' = Resolved(dataUrl)
                /\ timer' = FALSE
                /\ width' = w /\ height' = h /\ quality' = q
           ELSE /\ promise' = "pending"
                /\ settled' = NoResult
                /\ width' = next[1] /\ height' = next[2] /\ quality' = next[3]
                /\ timer' = TRUE

\* Mutant of cleanup: the object URL is dropped without being revoked.
cleanup_DropsUrl ==
    objectUrl' = "null" /\ UNCHANGED revoked

\* lines 112-117
cleanup ==
    IF objectUrl = "live"
    THEN objectUrl' = "null" /\ revoked' = revoked + 1
    ELSE UNCHANGED <<objectUrl, revoked>>

\* lines 119-165: img.onload, which makes the first attempt itself
OnLoad ==
    /\ promise = "loading"
    /\ img.decodes
    /\ cleanup
    /\ \E dataUrl \in EncoderOutputs :
           compress(1, Min(img.width, StartDim), Min(img.height, StartDim),
                    StartQuality, dataUrl)
    /\ UNCHANGED <<img, uvars>>

\* lines 167-170: img.onerror
OnError ==
    /\ promise = "loading"
    /\ ~img.decodes
    /\ cleanup
    /\ promise' = "rejected"
    /\ settled' = LoadFailed
    /\ UNCHANGED <<img, width, height, quality, attempts, timer, lastDataUrl,
                    uvars>>

\* line 160: the timer set by the previous attempt fires
CompressTimer ==
    /\ timer
    /\ \E dataUrl \in EncoderOutputs :
           compress(attempts + 1, width, height, quality, dataUrl)
    /\ UNCHANGED <<img, objectUrl, revoked, uvars>>

\* lines 106-110, 172-173: the state when compressImageToSize returns its promise
InitCompress ==
    /\ img \in Images
    /\ objectUrl = "live"
    /\ revoked = 0
    /\ width = 0 /\ height = 0
    /\ quality = StartQuality
    /\ attempts = 0
    /\ timer = FALSE
    /\ promise = "loading"
    /\ settled = NoResult
    /\ lastDataUrl = EmptyDataUrl

NextCompress == OnLoad \/ OnError \/ CompressTimer

\* Every well-formed base64 data URL up to MaxBody characters of body: the
\* body length is a multiple of 4 and ends in at most two '=' characters.
Base64DataUrls ==
    { DataUrl(4 * k, p) : k \in 1..(MaxBody \div 4), p \in 0..2 }
        \cup {DataUrl(0, 0)}

\* lines 119-149: img.onload and its first attempt, the encoder returning
\* any well-formed data URL
FirstAttempt ==
    /\ promise = "loading"
    /\ img.decodes
    /\ cleanup
    /\ \E dataUrl \in Base64DataUrls :
           compress(1, Min(img.width, StartDim), Min(img.height, StartDim),
                    StartQuality, dataUrl)
    /\ UNCHANGED <<img, uvars>>

-----------------------------------------------------------------------------
(***************************************************************************)
(* Part II: the QRGenerator component                                      *)
(***************************************************************************)

(* Strings.  A string is a sequence of chunks; a chunk is a run of          *)
(* characters that the code never looks into: a single blank " ", a ":",   *)
(* a line feed "\n", or a word.  LongRun stands for a run of 3000 small letters, *)
(* more than a QR symbol holds.                                            *)

EmptyStr == <<>>
Blank == " "
LongRun == "~"

ChunkLen(c) == IF c = LongRun THEN 3000 ELSE Len(c)

RECURSIVE StrLen(_)
\* s.length
StrLen(s) == IF s = <<>> THEN 0 ELSE ChunkLen(Head(s)) + StrLen(Tail(s))

RECURSIVE TrimStart(_)
TrimStart(s) ==
    IF s # <<>> /\ Head(s) = Blank THEN TrimStart(Tail(s)) ELSE s

RECURSIVE TrimEnd(_)
TrimEnd(s) ==
    IF s # <<>> /\ s[Len(s)] = Blank
    THEN TrimEnd(SubSeq(s, 1, Len(s) - 1))
    ELSE s

\* String.prototype.trim
Trim(s) == TrimEnd(TrimStart(s))

\* new URL(url) does not throw: the URL parser drops leading and trailing
\* blanks and then needs a scheme, a word followed by ":".
ParsesAsURL(url) ==
    LET t == Trim(url)
    IN  Len(t) >= 2 /\ t[1] \notin {Blank, ":", "\n"} /\ t[2] = ":"

NoMessage == [text |-> ""]
Message(text) == [text |-> text]
InvalidUrlMessage == Message("Please enter a valid URL")

\* validateImageURL, lines 80-91
validateImageURL(url) ==
    IF Trim(url) = EmptyStr
    THEN [isValid |-> FALSE, error |-> NoMessage]
    ELSE IF ParsesAsURL(url)
         THEN [isValid |-> TRUE, error |-> NoMessage]
         ELSE [isValid |-> FALSE, error |-> InvalidUrlMessage]

\* isValidURL, lines 252-260
isValidURL(url) ==
    IF Trim(url) = EmptyStr THEN FALSE ELSE ParsesAsURL(url)

\* Mutant of generateVCard: the TEL line is written before the ORG line.
generateVCard_TelFirst(contact) ==
    <<"BEGIN:VCARD", "\n", "VERSION:3.0", "\n">>
    \o (IF contact.name # EmptyStr
        THEN <<"FN:">> \o contact.name \o <<"\n">> ELSE <<>>)
    \o (IF contact.phone # EmptyStr
        THEN <<"TEL:">> \o contact.phone \o <<"\n">> ELSE <<>>)
    \o (IF contact.organization # EmptyStr
        THEN <<"ORG:">> \o contact.organization \o <<"\n">> ELSE <<>>)
    \o (IF contact.email # EmptyStr
        THEN <<"EMAIL:">> \o contact.email \o <<"\n">> ELSE <<>>)
    \o <<"END:VCARD">>

\* generateVCard, lines 69-77
generateVCard(contact) ==
    <<"BEGIN:VCARD", "\n", "VERSION:3.0", "\n">>
    \o (IF contact.name # EmptyStr
        THEN <<"FN:">> \o contact.name \o <<"\n">> ELSE <<>>)
    \o (IF contact.organization # EmptyStr
        THEN <<"ORG:">> \o contact.organization \o <<"\n">> ELSE <<>>)
    \o (IF contact.phone # EmptyStr
        THEN <<"TEL:">> \o contact.phone \o <<"\n">> ELSE <<>>)
    \o (IF contact.email # EmptyStr
        THEN <<"EMAIL:">> \o contact.email \o <<"\n">> ELSE <<>>)
    \o <<"END:VCARD">>

-----------------------------------------------------------------------------
(* Messages, files, data URLs and QR content                               *)

\* Error.message of what compressImageToSize rejects with, lines 144, 169
ErrorMessage(error) ==
    IF error.kind = "tooLarge"
    THEN [text |-> "Image too large for QR embedding. Please use Link mode instead.",
          payloadBytes |-> error.payloadBytes, limit |-> error.limit]
    ELSE Message("Failed to load image")

\* The data URL compressImageToSize produces from the file called `name`.
DataUrlOf(name, len, pad) ==
    [base64 |-> TRUE, len |-> len, pad |-> pad, of |-> name]

\* line 188
maxInitialSize == 5 * 1024 * 1024

\* file.type.startsWith('image/')
StartsWithImage(type) == type # <<>> /\ Head(type) = "image/"

\* The image a file holds, as the browser loads it
Picture(w, h, decodes) == [width |-> w, height |-> h, decodes |-> decodes]

\* The files the user can offer.  `img` is the image in the file.  `result`
\* is what compressImageToSize settles with for the file where its run is
\* not followed attempt by attempt (Part I): it depends on the file alone.
FileA == [name |-> "a.png", type |-> <<"image/", "png">>, size |-> 204800,
          img |-> Picture(FloorDim, FloorDim, TRUE),
          result |-> Resolved(DataUrlOf("a.png", 1332, 1))]
FileB == [name |-> "b.jpg", type |-> <<"image/", "jpeg">>, size |-> maxInitialSize,
          img |-> Picture(20, StartDim, FALSE),
          result |-> LoadFailed]
FileC == [name |-> "c.png", type |-> <<"image/", "png">>, size |-> 3000000,
          img |-> Picture(MaxDim, MaxDim, TRUE),
          result |-> TooLarge(1001, maxSizeBytes)]
FileD == [name |-> "d.txt", type |-> <<"text/", "plain">>, size |-> 10,
          img |-> Picture(1, 1, FALSE),
          result |-> LoadFailed]
FileE == [name |-> "e.png", type |-> <<"image/", "png">>, size |-> maxInitialSize + 1,
          img |-> Picture(100, 100, TRUE),
          result |-> Resolved(DataUrlOf("e.png", 1332, 0))]
Files == {FileA, FileB, FileC, FileD, FileE}
NoFile == [name |-> "null"]

\* '' where an object URL is expected; object URLs are 1, 2, ...
NoPreview == 0

StrContent(str) == [kind |-> "str", str |-> str]
DataContent(dataUrl) == [kind |-> "dataUrl", dataUrl |-> dataUrl]

\* content.length
ContentLength(content) ==
    IF content.kind = "str" THEN StrLen(content.str)
    ELSE DataUrlLength(content.dataUrl)

\* QRCode.create throws when the data exceeds what the largest symbol
\* (version 40, byte mode) holds at the level asked for.
Capacity(level) == IF level = "L" THEN 2953 ELSE 2331
EncoderAccepts(content, level) == ContentLength(content) <= Capacity(level)

\* no setter of exportFormat or exportResolution is ever called
exportFormat == "png"
exportResolution == 300

BlankCanvas == [drawn |-> FALSE]
\* what QRCode.toCanvas / toString draws for a call
Drawn(call) ==
    [drawn |-> TRUE, content |-> call.content,
     errorCorrectionLevel |-> call.errorCorrectionLevel, width |-> call.width,
     dark |-> call.dark, light |-> call.light]

NoDownload == [filename |-> ""]

-----------------------------------------------------------------------------
(* Bounds of the component model                                           *)

\* Object URLs alive at once.
MaxUrls == 3
\* Compressions in flight at once.
MaxInflight == 2

-----------------------------------------------------------------------------
(* The component.  Its functions read the state of the render that created *)
(* them (the snapshot s) and queue their updates (collected in w).         *)

\* The current values, as a record
World ==
    [inputType |-> inputType, textContent |-> textContent,
     urlContent |-> urlContent, contactInfo |-> contactInfo,
     qrColor |-> qrColor, bgColor |-> bgColor, qrSize |-> qrSize,
     qrCodeGenerated |-> qrCodeGenerated, urlError |-> urlError,
     imageMode |-> imageMode, imageUrl |-> imageUrl, imageFile |-> imageFile,
     imagePreview |-> imagePreview, embedDataUrl |-> embedDataUrl,
     imageUrlError |-> imageUrlError, imageFileError |-> imageFileError,
     isCompressing |-> isCompressing, canvas |-> canvas,
     blobUrls |-> blobUrls, inflight |-> inflight,
     encodeCalls |-> <<>>, toasts |-> <<>>, download |-> NoDownload,
     offered |-> NoFile, inBounds |-> TRUE]

\* lines 23-48: useState initial values, and the mount effects
InitialWorld ==
    [inputType |-> "text", textContent |-> EmptyStr, urlContent |-> EmptyStr,
     contactInfo |-> [name |-> EmptyStr, phone |-> EmptyStr,
                      email |-> EmptyStr, organization |-> EmptyStr],
     qrColor |-> "#000000", bgColor |-> "#ffffff", qrSize |-> 300,
     qrCodeGenerated |-> FALSE, urlError |-> NoMessage,
     imageMode |-> "link", imageUrl |-> EmptyStr, imageFile |-> NoFile,
     imagePreview |-> NoPreview, embedDataUrl |-> EmptyDataUrl,
     imageUrlError |-> NoMessage, imageFileError |-> NoMessage,
     isCompressing |-> FALSE, canvas |-> BlankCanvas,
     blobUrls |-> {}, inflight |-> [n \in {f.name : f \in Files} |-> 0],
     encodeCalls |-> <<>>, toasts |-> <<>>, download |-> NoDownload,
     offered |-> NoFile, inBounds |-> TRUE]

\* getQRContent, lines 233-250
getQRContent(s) ==
    CASE s.inputType = "text" -> StrContent(Trim(s.textContent))
      [] s.inputType = "url" -> StrContent(Trim(s.urlContent))
      [] s.inputType = "contact" -> StrContent(generateVCard(s.contactInfo))
      [] s.inputType = "image" ->
            IF s.imageMode = "link"
            THEN StrContent(Trim(s.imageUrl))
            ELSE DataContent(s.embedDataUrl)

\* Mutant of hasValidContent: organization counts like the other fields.
hasValidContent_WithOrg(s) ==
    CASE s.inputType = "text" -> StrLen(Trim(s.textContent)) > 0
      [] s.inputType = "url" ->
            StrLen(Trim(s.urlContent)) > 0 /\ isValidURL(s.urlContent)
      [] s.inputType = "contact" ->
            \/ StrLen(Trim(s.contactInfo.name)) > 0
            \/ StrLen(Trim(s.contactInfo.phone)) > 0
            \/ StrLen(Trim(s.contactInfo.email)) > 0
            \/ StrLen(Trim(s.contactInfo.organization)) > 0
      [] s.inputType = "image" ->
            IF s.imageMode = "link"
            THEN StrLen(Trim(s.imageUrl)) > 0 /\ s.imageUrlError.text = ""
            ELSE /\ DataUrlLength(s.embedDataUrl) > 0
                 /\ ~s.isCompressing
                 /\ s.imageFileError.text = ""

\* hasValidContent, lines 262-281
hasValidContent(s) ==
    CASE s.inputType = "text" -> StrLen(Trim(s.textContent)) > 0
      [] s.inputType = "url" ->
            StrLen(Trim(s.urlContent)) > 0 /\ isValidURL(s.urlContent)
      [] s.inputType = "contact" ->
            \/ StrLen(Trim(s.contactInfo.name)) > 0
            \/ StrLen(Trim(s.contactInfo.phone)) > 0
            \/ StrLen(Trim(s.contactInfo.email)) > 0
      [] s.inputType = "image" ->
            IF s.imageMode = "link"
            THEN StrLen(Trim(s.imageUrl)) > 0 /\ s.imageUrlError.text = ""
            ELSE /\ DataUrlLength(s.embedDataUrl) > 0
                 /\ ~s.isCompressing
                 /\ s.imageFileError.text = ""

\* Mutant of errorCorrectionLevel: level L for every image, linked or embedded.
errorCorrectionLevel_AnyImage(s) ==
    IF s.inputType = "image" THEN "L" ELSE "M"

\* lines 300 and 341
errorCorrectionLevel(s) ==
    IF s.inputType = "image" /\ s.imageMode = "embed" THEN "L" ELSE "M"

\* The arguments of one QRCode.toCanvas / QRCode.toString call, with the
\* content type and image mode of the render that made it.
EncodeCall(s, target, content, pixels) ==
    [target |-> target, content |-> content,
     errorCorrectionLevel |-> errorCorrectionLevel(s), width |-> pixels,
     dark |-> s.qrColor, light |-> s.bgColor,
     inputType |-> s.inputType, imageMode |-> s.imageMode]

\* generateQRCode, lines 283-321
generateQRCode(s, w) ==
    LET content == getQRContent(s)
    IN  IF ContentLength(content) = 0 \/ ~hasValidContent(s)
        THEN [w EXCEPT !.qrCodeGenerated = FALSE, !.canvas = BlankCanvas]
        ELSE LET call == EncodeCall(s, "canvasRef", content, s.qrSize)
             IN  IF EncoderAccepts(content, call.errorCorrectionLevel)
                 THEN [w EXCEPT !.encodeCalls = Append(@, call),
                                !.canvas = Drawn(call),
                                !.qrCodeGenerated = TRUE]
                 ELSE [w EXCEPT !.encodeCalls = Append(@, call),
                                !.toasts = Append(@, "Generation Failed")]

\* downloadQRCode, lines 323-424
downloadQRCode(s, w) ==
    LET content == getQRContent(s)
        call == EncodeCall(s, exportFormat, content, exportResolution)
        failed == [w EXCEPT !.encodeCalls = Append(@, call),
                            !.toasts = Append(@, "Download Failed")]
        saved(filename, image, calls) ==
            [w EXCEPT !.encodeCalls = @ \o calls,
                      !.download = [filename |-> filename, image |-> image],
                      !.toasts = Append(@, "Download Complete")]
    IN  IF ~s.qrCodeGenerated THEN [w EXCEPT !.toasts = Append(@, "No QR Code")]
        ELSE IF ContentLength(content) = 0 THEN w
        ELSE IF exportFormat = "svg"
        THEN IF EncoderAccepts(content, call.errorCorrectionLevel)
             THEN saved("qrcode.svg", Drawn(call), <<call>>)
             ELSE failed
        ELSE IF exportFormat = "jpeg"
        THEN IF EncoderAccepts(content, call.errorCorrectionLevel)
             THEN saved("qrcode.jpg", Drawn(call), <<call>>)
             ELSE failed
        ELSE IF exportResolution # s.qrSize
        THEN IF EncoderAccepts(content, call.errorCorrectionLevel)
             THEN saved("qrcode.png", Drawn(call), <<call>>)
             ELSE failed
        ELSE saved("qrcode.png", w.canvas, <<>>)

\* validateURL, lines 53-67
validateURL(url, w) ==
    IF Trim(url) = EmptyStr THEN [w EXCEPT !.urlError = NoMessage]
    ELSE IF ParsesAsURL(url) THEN [w EXCEPT !.urlError = NoMessage]
    ELSE [w EXCEPT !.urlError = InvalidUrlMessage]

RECURSIVE SumOver(_, _)
SumOver(f, S) ==
    IF S = {} THEN 0
    ELSE LET x == CHOOSE y \in S : TRUE IN f[x] + SumOver(f, S \ {x})

\* number of compressImageToSize promises not yet settled
InflightCount(w) == SumOver(w.inflight, DOMAIN w.inflight)

\* URL.createObjectURL(file): an object URL that nothing holds
CreateObjectURL(s, w) ==
    LET free == (1..MaxUrls) \ (w.blobUrls \cup {s.imagePreview, w.imagePreview})
    IN  IF free = {} THEN NoPreview
        ELSE CHOOSE u \in free : \A v \in free : u <= v

\* line 210: the call of compressImageToSize(file, 1000)
StartCompression(file, w) ==
    [w EXCEPT !.inflight[file.name] = @ + 1,
              !.inBounds = @ /\ InflightCount(w) < MaxInflight]

\* processImageFile up to its await, lines 177-210
processImageFile(s, w, file) ==
    LET reset == [w EXCEPT !.imageFileError = NoMessage, !.isCompressing = FALSE]
        previewUrl == CreateObjectURL(s, w)
        stored == [reset EXCEPT !.blobUrls = (@ \ {s.imagePreview}) \cup {previewUrl},
                                !.imagePreview = previewUrl,
                                !.imageFile = file,
                                !.inBounds = @ /\ previewUrl # NoPreview]
    IN  IF ~StartsWithImage(file.type)
        THEN [reset EXCEPT !.imageFileError = Message("Please select an image file")]
        ELSE IF file.size > maxInitialSize
        THEN [reset EXCEPT !.imageFileError = Message("Image must be smaller than 5MB")]
        ELSE IF s.imageMode = "embed"
        THEN StartCompression(file, [stored EXCEPT !.isCompressing = TRUE])
        ELSE stored

\* Mutant of AfterCompression: a failed compression keeps the old payload.
AfterCompression_KeepsPayload(w, result) ==
    IF result.kind = "dataUrl"
    THEN [w EXCEPT !.embedDataUrl = result.dataUrl,
                   !.isCompressing = FALSE,
                   !.toasts = Append(@, "Image Processed")]
    ELSE [w EXCEPT !.imageFileError = ErrorMessage(result),
                   !.isCompressing = FALSE]

\* processImageFile after its await, lines 210-224: the promise for `file`
\* has settled with `result`
AfterCompression(w, result) ==
    IF result.kind = "dataUrl"
    THEN [w EXCEPT !.embedDataUrl = result.dataUrl,
                   !.isCompressing = FALSE,
                   !.toasts = Append(@, "Image Processed")]
    ELSE [w EXCEPT !.imageFileError = ErrorMessage(result),
                   !.isCompressing = FALSE,
                   !.embedDataUrl = EmptyDataUrl]

\* dependency arrays of the effects, lines 428, 434, 441, 456
GenerateDeps(s) ==
    <<s.textContent, s.urlContent, s.contactInfo, s.imageUrl, s.embedDataUrl,
      s.qrColor, s.bgColor, s.qrSize, s.inputType, s.imageMode>>
ValidateUrlDeps(s) == <<s.urlContent, s.inputType>>
ValidateImageUrlDeps(s) == <<s.imageUrl, s.inputType, s.imageMode>>
ProcessFileDeps(s) == <<s.imageMode, s.imageFile>>

\* lines 426-456: the effects of the render of `cur` that follows the
\* render of `prev`; all of them read `cur`
RunEffects(prev, cur) ==
    LET w1 == IF GenerateDeps(prev) # GenerateDeps(cur)
              THEN generateQRCode(cur, cur) ELSE cur
        w2 == IF ValidateUrlDeps(prev) # ValidateUrlDeps(cur)
                 /\ cur.inputType = "url"
              THEN validateURL(cur.urlContent, w1) ELSE w1
        w3 == IF ValidateImageUrlDeps(prev) # ValidateImageUrlDeps(cur)
                 /\ cur.inputType = "image" /\ cur.imageMode = "link"
              THEN [w2 EXCEPT !.imageUrlError = validateImageURL(cur.imageUrl).error]
              ELSE w2
        w4 == IF ProcessFileDeps(prev) # ProcessFileDeps(cur)
                 /\ cur.inputType = "image" /\ cur.imageMode = "embed"
                 /\ cur.imageFile # NoFile
                 /\ DataUrlLength(cur.embedDataUrl) = 0
              THEN processImageFile(cur, w3, cur.imageFile) ELSE w3
    IN  w4

AllDeps(s) ==
    <<GenerateDeps(s), ValidateUrlDeps(s), ValidateImageUrlDeps(s),
      ProcessFileDeps(s)>>

RECURSIVE Render(_, _)
\* React renders after a state change and runs the effects whose
\* dependencies changed, again for the changes the effects make.
Render(prev, cur) ==
    LET next == RunEffects(prev, cur)
    IN  IF AllDeps(next) = AllDeps(cur) THEN next ELSE Render(cur, next)

\* The component's state becomes w.  An unmounted component has no
\* handlers and its state setters do nothing.
Apply(w) ==
    /\ w.inBounds
    /\ mounted /\ mounted' = TRUE
    /\ inputType' = w.inputType
    /\ textContent' = w.textContent
    /\ urlContent' = w.urlContent
    /\ contactInfo' = w.contactInfo
    /\ qrColor' = w.qrColor
    /\ bgColor' = w.bgColor
    /\ qrSize' = w.qrSize
    /\ qrCodeGenerated' = w.qrCodeGenerated
    /\ urlError' = w.urlError
    /\ imageMode' = w.imageMode
    /\ imageUrl' = w.imageUrl
    /\ imageFile' = w.imageFile
    /\ imagePreview' = w.imagePreview
    /\ embedDataUrl' = w.embedDataUrl
    /\ imageUrlError' = w.imageUrlError
    /\ imageFileError' = w.imageFileError
    /\ isCompressing' = w.isCompressing
    /\ canvas' = w.canvas
    /\ blobUrls' = w.blobUrls
    /\ inflight' = w.inflight
    /\ encodeCalls' = w.encodeCalls
    /\ toasts' = w.toasts
    /\ download' = w.download
    /\ offered' = w.offered

\* The step is taken: the state becomes w.
Commit(w) == Apply(w) /\ UNCHANGED cvars

\* An event handler has turned World into `after`: render and commit.
Handle(after) ==
    \E s \in {World} : \E a \in {after} : \E w \in {Render(s, a)} : Commit(w)

InitUI ==
    /\ mounted = TRUE
    /\ inputType = InitialWorld.inputType
    /\ textContent = InitialWorld.textContent
    /\ urlContent = InitialWorld.urlContent
    /\ contactInfo = InitialWorld.contactInfo
    /\ qrColor = InitialWorld.qrColor
    /\ bgColor = InitialWorld.bgColor
    /\ qrSize = InitialWorld.qrSize
    /\ qrCodeGenerated = InitialWorld.qrCodeGenerated
    /\ urlError = InitialWorld.urlError
    /\ imageMode = InitialWorld.imageMode
    /\ imageUrl = InitialWorld.imageUrl
    /\ imageFile = InitialWorld.imageFile
    /\ imagePreview = InitialWorld.imagePreview
    /\ embedDataUrl = InitialWorld.embedDataUrl
    /\ imageUrlError = InitialWorld.imageUrlError
    /\ imageFileError = InitialWorld.imageFileError
    /\ isCompressing = InitialWorld.isCompressing
    /\ canvas = InitialWorld.canvas
    /\ blobUrls = InitialWorld.blobUrls
    /\ inflight = InitialWorld.inflight
    /\ encodeCalls = InitialWorld.encodeCalls
    /\ toasts = InitialWorld.toasts
    /\ download = InitialWorld.download
    /\ offered = InitialWorld.offered

\* No compressImageToSize run is being followed step by step.
IdleCompress ==
    /\ img = Picture(1, 1, TRUE)
    /\ objectUrl = "null"
    /\ revoked = 0
    /\ width = 0 /\ height = 0
    /\ quality = StartQuality
    /\ attempts = 0
    /\ timer = FALSE
    /\ promise = "none"
    /\ settled = NoResult
    /\ lastDataUrl = EmptyDataUrl

-----------------------------------------------------------------------------
(* What the user may enter                                                 *)

InputTypes == {"text", "url", "contact", "image"}
TextInputs == {EmptyStr, <<Blank>>, <<Blank, "Hello", Blank>>, <<LongRun>>}
UrlInputs == {EmptyStr, <<"not", Blank, "a", Blank, "url">>,
              <<Blank, "https", ":", "//example.com">>}
NameInputs == {EmptyStr, <<Blank>>, <<"Ann">>}
PhoneInputs == {EmptyStr, <<"555">>}
EmailInputs == {EmptyStr, <<"ann@example.com">>}
OrganizationInputs == {EmptyStr, <<"Org">>, <<LongRun>>}
QrColors == {"#000000", "#ff0000"}
BgColors == {"#ffffff", "#ffff00"}
QrSizes == {200, 300, 400}

-----------------------------------------------------------------------------
(* Event handlers.  An input or button exists only while the JSX renders   *)
(* it: that is the first conjunct of its action.                           *)

\* lines 493, 501, 509, 517
SelectInputType ==
    \E t \in InputTypes : Handle([World EXCEPT !.inputType = t])

\* line 535
ChangeText ==
    /\ inputType = "text"
    /\ \E v \in TextInputs \ {textContent} :
           Handle([World EXCEPT !.textContent = v])

\* line 550
ChangeUrl ==
    /\ inputType = "url"
    /\ \E v \in UrlInputs \ {urlContent} :
           Handle([World EXCEPT !.urlContent = v])

\* lines 577-579
ChangeContactName ==
    /\ inputType = "contact"
    /\ \E v \in NameInputs \ {contactInfo.name} :
           Handle([World EXCEPT !.contactInfo.name = v])

\* lines 591-593
ChangeContactPhone ==
    /\ inputType = "contact"
    /\ \E v \in PhoneInputs \ {contactInfo.phone} :
           Handle([World EXCEPT !.contactInfo.phone = v])

\* lines 606-608
ChangeContactEmail ==
    /\ inputType = "contact"
    /\ \E v \in EmailInputs \ {contactInfo.email} :
           Handle([World EXCEPT !.contactInfo.email = v])

\* lines 619-621
ChangeContactOrganization ==
    /\ inputType = "contact"
    /\ \E v \in OrganizationInputs \ {contactInfo.organization} :
           Handle([World EXCEPT !.contactInfo.organization = v])

\* line 848
ChangeQrColor ==
    \E c \in QrColors \ {qrColor} : Handle([World EXCEPT !.qrColor = c])

\* line 861
ChangeBgColor ==
    \E c \in BgColors \ {bgColor} : Handle([World EXCEPT !.bgColor = c])

\* lines 877, 886, 895
ClickSize ==
    \E n \in QrSizes : Handle([World EXCEPT !.qrSize = n])

\* lines 638-648
ClickLinkMode ==
    /\ inputType = "image"
    /\ Handle([World EXCEPT !.imageMode = "link",
                            !.blobUrls = @ \ {imagePreview},
                            !.imageFile = NoFile,
                            !.imagePreview = NoPreview,
                            !.embedDataUrl = EmptyDataUrl,
                            !.imageFileError = NoMessage])

\* lines 656-661
ClickEmbedMode ==
    /\ inputType = "image"
    /\ Handle([World EXCEPT !.imageMode = "embed",
                            !.imageUrl = EmptyStr,
                            !.imageUrlError = NoMessage])

\* line 684
ChangeImageUrl ==
    /\ inputType = "image" /\ imageMode = "link"
    /\ \E v \in UrlInputs \ {imageUrl} :
           Handle([World EXCEPT !.imageUrl = v])

\* lines 685-688
BlurImageUrl ==
    /\ inputType = "image" /\ imageMode = "link"
    /\ Handle([World EXCEPT !.imageUrlError = validateImageURL(imageUrl).error])

\* lines 729-734: the file input's onChange.  The file offered is another
\* one than the selected file: the dependency array of the effect at lines
\* 452-456 compares File objects by identity, which a record does not have.
SelectFile ==
    /\ inputType = "image" /\ imageMode = "embed"
    /\ \E file \in Files \ {imageFile} :
           Handle([processImageFile(World, World, file) EXCEPT !.offered = file])

\* lines 712-718: the drop zone's onDrop
onDrop(file) ==
    IF StartsWithImage(file.type)
    THEN processImageFile(World, World, file)
    ELSE World

DropFile ==
    /\ inputType = "image" /\ imageMode = "embed"
    /\ \E file \in Files \ {imageFile} :
           Handle([onDrop(file) EXCEPT !.offered = file])

\* lines 210-224: a compressImageToSize promise settles and the
\* processImageFile call awaiting it goes on
CompressionSettles ==
    \E file \in Files :
        /\ inflight[file.name] > 0
        /\ Handle(AfterCompression([World EXCEPT !.inflight[file.name] = @ - 1],
                                   file.result))

\* lines 106-110, 172-173: of the compressImageToSize runs in flight, the
\* run for `file` is the one followed attempt by attempt from here on; its
\* image element has been given the file's object URL and loads.
FollowRun ==
    /\ promise = "none"
    /\ \E file \in Files :
           /\ inflight[file.name] > 0
           /\ img' = [width |-> file.img.width, height |-> file.img.height,
                      decodes |-> file.img.decodes, src |-> file.name]
    /\ objectUrl' = "live"
    /\ revoked' = 0
    /\ width' = 0 /\ height' = 0
    /\ quality' = StartQuality
    /\ attempts' = 0
    /\ timer' = FALSE
    /\ promise' = "loading"
    /\ settled' = NoResult
    /\ lastDataUrl' = EmptyDataUrl
    /\ UNCHANGED uvars

\* the followed run has settled and processImageFile has not gone on yet
Undelivered == promise \in {"resolved", "rejected"}

\* lines 210-224: the followed run has settled and the processImageFile call
\* awaiting it goes on with what it settled with
RunSettles ==
    /\ Undelivered
    /\ \E s \in {World} :
           \E a \in {AfterCompression([s EXCEPT !.inflight[img.src] = @ - 1],
                                      settled)} :
               \E w \in {Render(s, a)} : Apply(w)
    /\ img' = Picture(1, 1, TRUE)
    /\ objectUrl' = "null"
    /\ revoked' = 0
    /\ width' = 0 /\ height' = 0
    /\ quality' = StartQuality
    /\ attempts' = 0
    /\ timer' = FALSE
    /\ promise' = "none"
    /\ settled' = NoResult
    /\ lastDataUrl' = EmptyDataUrl

\* lines 443-450: React unmounts the component and runs the cleanup of the
\* effect declared with [] dependencies.  The cleanup is the closure of the
\* first render: the imagePreview it reads is the initial one.
Unmount ==
    /\ mounted
    /\ mounted' = FALSE
    /\ blobUrls' = IF InitialWorld.imagePreview # NoPreview
                   THEN blobUrls \ {InitialWorld.imagePreview}
                   ELSE blobUrls
    /\ encodeCalls' = <<>>
    /\ toasts' = <<>>
    /\ download' = NoDownload
    /\ offered' = NoFile
    /\ UNCHANGED <<inputType, textContent, urlContent, contactInfo, qrColor,
                    bgColor, qrSize, qrCodeGenerated, urlError, imageMode,
                    imageUrl, imageFile, imagePreview, embedDataUrl,
                    imageUrlError, imageFileError, isCompressing, canvas,
                    inflight>>
    /\ UNCHANGED cvars

\* lines 822-829: the Generate button
ClickGenerate ==
    /\ hasValidContent(World)
    /\ Handle(generateQRCode(World, World))

\* lines 931-939: the Download button
ClickDownload ==
    /\ qrCodeGenerated
    /\ Handle(downloadQRCode(World, World))

\* The user works on the contact record.
NextContact ==
    \/ SelectInputType
    \/ ChangeContactName
    \/ ChangeContactPhone
    \/ ChangeContactEmail
    \/ ChangeContactOrganization
    \/ ClickSize
    \/ ClickGenerate
    \/ ClickDownload

\* The user works on text, URL, linked image, colours and size; no file is
\* offered.
NextForm ==
    \/ SelectInputType
    \/ ChangeText
    \/ ChangeUrl
    \/ ChangeQrColor
    \/ ChangeBgColor
    \/ ClickSize
    \/ ClickLinkMode
    \/ ClickEmbedMode
    \/ ChangeImageUrl
    \/ BlurImageUrl
    \/ ClickGenerate
    \/ ClickDownload

\* The user works on the image tab: modes, image URL, files offered and
\* their compressions, besides switching the content type and typing text.
NextImage ==
    \/ SelectInputType
    \/ ChangeText
    \/ ClickSize
    \/ ClickLinkMode
    \/ ClickEmbedMode
    \/ ChangeImageUrl
    \/ BlurImageUrl
    \/ SelectFile
    \/ DropFile
    \/ CompressionSettles
    \/ ClickGenerate
    \/ ClickDownload

\* The user offers files, switches the image mode, and leaves the page.
NextUpload ==
    \/ SelectInputType
    \/ ClickLinkMode
    \/ ClickEmbedMode
    \/ SelectFile
    \/ DropFile
    \/ CompressionSettles
    \/ Unmount

\* The files offered while the runs are followed attempt by attempt.
EmbedFiles == {FileA, FileB, FileC}

\* The user opens the image tab and works on embedded images while the
\* compression runs are followed attempt by attempt.  The continuation of
\* a settled run is a microtask: it runs before any other event.
NextEmbed ==
    \/ FollowRun
    \/ OnLoad
    \/ OnError
    \/ CompressTimer
    \/ RunSettles
    \/ (~Undelivered /\ SelectInputType /\ inputType' = "image")
    \/ (~Undelivered /\ ClickLinkMode)
    \/ (~Undelivered /\ ClickEmbedMode)
    \/ (~Undelivered /\ SelectFile /\ offered' \in EmbedFiles)

-----------------------------------------------------------------------------
(* Specifications                                                          *)

\* A run of compressImageToSize begins; the component is freshly mounted.
InitRun == InitCompress /\ InitUI

\* The component is freshly mounted and no run is followed.
InitComponent == InitUI /\ IdleCompress

\* A run of compressImageToSize begins for a 128x128 image.
InitPayload == InitRun /\ img = [width |-> StartDim, height |-> StartDim, decodes |-> TRUE]

\* The first attempt of a run, over all well-formed encoder outputs.
SpecPayload == InitPayload /\ [][FirstAttempt]_vars

\* One run of compressImageToSize; the component is left out of it.
SpecCompress == InitRun /\ [][NextCompress]_vars

\* The component while the user works on the form (NextForm).
SpecForm == InitComponent /\ [][NextForm]_vars

\* The component while the user works on the contact record (NextContact).
SpecContact == InitComponent /\ [][NextContact]_vars

\* The component while the user works on the image tab (NextImage).
SpecImage == InitComponent /\ [][NextImage]_vars

\* The component from mount to unmount while files are offered (NextUpload).
SpecUpload == InitComponent /\ [][NextUpload]_vars

\* The component with its compression runs followed in detail (NextEmbed).
SpecEmbed == InitComponent /\ [][NextEmbed]_vars

\* The browser fires every pending timer and every load or error event.
FairCompress == SpecCompress /\ WF_vars(NextCompress)

-----------------------------------------------------------------------------
(* Claims about compressImageToSize                                        *)

\* C1: the promise never resolves with a data URL whose decoded payload
\* exceeds maxSizeBytes; a run that stops above the budget rejects.
C1_NeverOverBudget ==
    promise = "resolved" =>
        /\ settled.kind = "dataUrl"
        /\ getBase64PayloadBytes(settled.dataUrl) <= maxSizeBytes

\* C1 witness: a run that resolves on the very last attempt allowed, after
\* every earlier attempt came out over the budget.
C1_Witness ==
    /\ promise = "resolved"
    /\ attempts = maxAttempts
    /\ getBase64PayloadBytes(settled.dataUrl) = maxSizeBytes

Settled == promise \in {"resolved", "rejected"}

\* C2: once the image has loaded, the promise settles, and no run makes
\* more than maxAttempts attempts: a loaded, unsettled run has made fewer
\* than maxAttempts attempts and has its next attempt scheduled.
C2_SettlesWithinBound ==
    /\ [](attempts <= maxAttempts)
    /\ []((promise = "pending") => (attempts < maxAttempts /\ timer))
    /\ []((promise # "loading") => <>Settled)

\* C2 witness: a 1x1 image whose encodings never fit has settled.
C2_Witness ==
    /\ img.width = 1 /\ img.height = 1
    /\ promise = "rejected"
    /\ settled.kind = "tooLarge"
    /\ attempts > 1

-----------------------------------------------------------------------------
(* Claims about the component                                              *)

\* C3: a compression result is applied to embedDataUrl only if it was
\* produced from the file that is selected (imageFile) when it arrives.
C3_OnlyCurrentFileApplied ==
    [][(embedDataUrl' # embedDataUrl /\ embedDataUrl'.base64)
          => (imageFile' # NoFile /\ embedDataUrl'.of = imageFile'.name)]_vars

\* C4: once the user has switched to link mode (which deselects the file),
\* embedDataUrl is empty and stays empty until a file is selected again.
C4_EmptyUntilReselected ==
    imageFile = NoFile => DataUrlLength(embedDataUrl) = 0

\* the content is one generateQRCode may encode under the claimed rule
WellFormedFor(call) ==
    /\ ContentLength(call.content) > 0
    /\ (call.inputType = "url"
           \/ (call.inputType = "image" /\ call.imageMode = "link"))
       => (call.content.kind = "str" /\ ParsesAsURL(call.content.str))

\* C5: every encode call issued by generateQRCode receives a non-empty
\* content string which, for the URL and image/link variants, parses as a URL.
C5_EncodesOnlyValidContent ==
    \A i \in 1..Len(encodeCalls) :
        encodeCalls[i].target = "canvasRef" => WellFormedFor(encodeCalls[i])

\* the canvas shows the content resolved from the current state, drawn
\* with the current render parameters
RenderedNow ==
    /\ qrCodeGenerated
    /\ canvas = Drawn(EncodeCall(World, "canvasRef", getQRContent(World), qrSize))

\* C6: after a change and the effects it triggers, valid resolved content
\* (that the encoder can hold) has been rendered and qrCodeGenerated is true.
C6_ValidContentIsRendered ==
    (/\ hasValidContent(World)
     /\ EncoderAccepts(getQRContent(World), errorCorrectionLevel(World)))
        => RenderedNow

\* C7: every encode request, for the screen or for an export, asks for level
\* L exactly when the content type is image and the image mode is embed, and
\* for level M otherwise.
C7_ErrorCorrectionLevel ==
    \A i \in 1..Len(encodeCalls) :
        LET call == encodeCalls[i]
        IN  /\ call.inputType = inputType /\ call.imageMode = imageMode
            /\ call.errorCorrectionLevel =
                  (IF inputType = "image" /\ imageMode = "embed" THEN "L" ELSE "M")

\* C7 witness: an embedded image was exported at a resolution other than the
\* on-screen size, which encodes it again at level L.
C7_Witness ==
    /\ inputType = "image" /\ imageMode = "embed"
    /\ download.filename = "qrcode.png"
    /\ Len(encodeCalls) = 1
    /\ encodeCalls[1].target = "png"
    /\ encodeCalls[1].errorCorrectionLevel = "L"
    /\ encodeCalls[1].content = DataContent(FileA.result.dataUrl)

NonBlank(str) == Trim(str) # EmptyStr

\* every field is empty or blank
AllFieldsEmpty(contact) ==
    /\ ~NonBlank(contact.name) /\ ~NonBlank(contact.phone)
    /\ ~NonBlank(contact.email) /\ ~NonBlank(contact.organization)

\* C8 as claimed: in contact mode the content is invalid exactly when all
\* four fields are empty; a record with any field present is valid and
\* rendered (when the encoder can hold it).
C8_ValidUnlessAllEmpty ==
    inputType = "contact" =>
        /\ hasValidContent(World) <=> ~AllFieldsEmpty(contactInfo)
        /\ (/\ ~AllFieldsEmpty(contactInfo)
            /\ EncoderAccepts(getQRContent(World), errorCorrectionLevel(World)))
              => RenderedNow

\* C8 amended: in contact mode the content is valid exactly when name, phone
\* or email is non-blank; organization alone does not make it valid.  Valid
\* content is rendered when the encoder can hold it; invalid content leaves
\* the canvas cleared.
C8_ValidIffNamePhoneOrEmail ==
    inputType = "contact" =>
        LET valid == \/ NonBlank(contactInfo.name)
                     \/ NonBlank(contactInfo.phone)
                     \/ NonBlank(contactInfo.email)
        IN  /\ hasValidContent(World) <=> valid
            /\ (valid /\ EncoderAccepts(getQRContent(World), "M")) => RenderedNow
            /\ ~valid => (~qrCodeGenerated /\ canvas = BlankCanvas)

\* C8 witness: a record with only its organization set has been entered and
\* nothing is rendered for it.
C8_Witness ==
    /\ inputType = "contact"
    /\ contactInfo.organization = <<"Org">>
    /\ contactInfo.name = EmptyStr /\ contactInfo.phone = EmptyStr
    /\ contactInfo.email = EmptyStr
    /\ ~qrCodeGenerated /\ canvas = BlankCanvas

RECURSIVE Lines(_)
\* str.split('\n')
Lines(str) ==
    IF \A i \in 1..Len(str) : str[i] # "\n" THEN <<str>>
    ELSE LET k == CHOOSE i \in 1..Len(str) :
                      str[i] = "\n" /\ \A j \in 1..(i - 1) : str[j] # "\n"
         IN  <<SubSeq(str, 1, k - 1)>> \o Lines(SubSeq(str, k + 1, Len(str)))

\* C9: generateVCard emits BEGIN:VCARD, VERSION:3.0, then one data line per
\* non-empty field and none for an empty one, in the order FN, ORG, TEL,
\* EMAIL, then END:VCARD.
C9_VCardLines ==
    LET lines == Lines(generateVCard(contactInfo))
        fields == << [tag |-> "FN:", value |-> contactInfo.name],
                     [tag |-> "ORG:", value |-> contactInfo.organization],
                     [tag |-> "TEL:", value |-> contactInfo.phone],
                     [tag |-> "EMAIL:", value |-> contactInfo.email] >>
        IsPresent(f) == f.value # EmptyStr
        present == SelectSeq(fields, IsPresent)
    IN  /\ Len(lines) = Len(present) + 3
        /\ lines[1] = <<"BEGIN:VCARD">>
        /\ lines[2] = <<"VERSION:3.0">>
        /\ lines[Len(lines)] = <<"END:VCARD">>
        /\ \A i \in 1..Len(present) :
               lines[i + 2] = <<present[i].tag>> \o present[i].value

\* C9 witness: a record with only its email set is on the canvas as a
\* vCard of four lines, the third being the EMAIL line.
C9_Witness ==
    /\ inputType = "contact"
    /\ contactInfo = [name |-> EmptyStr, phone |-> EmptyStr,
                      email |-> <<"ann@example.com">>, organization |-> EmptyStr]
    /\ canvas.drawn
    /\ canvas.content = StrContent(generateVCard(contactInfo))
    /\ Len(Lines(canvas.content.str)) = 4
    /\ Lines(canvas.content.str)[3] = <<"EMAIL:", "ann@example.com">>

\* the file is one the component must refuse
Unacceptable(file) ==
    file # NoFile /\ (~StartsWithImage(file.type) \/ file.size > maxInitialSize)

\* C10: a picked or dropped file that is not an image or exceeds 5 MB is
\* rejected with imageFileError set, starts no compression and leaves
\* imageFile, imagePreview and embedDataUrl unchanged.
C10_RejectedWithMessage ==
    [][Unacceptable(offered')
          => /\ imageFileError'.text # ""
             /\ inflight' = inflight
             /\ imageFile' = imageFile
             /\ imagePreview' = imagePreview
             /\ embedDataUrl' = embedDataUrl]_vars

\* C11: when a compression fails because the budget is unreachable, the
\* rejection carries the payload size of the last attempt and the budget,
\* and the continuation sets the file error to that message, clears
\* embedDataUrl and resets isCompressing.
C11_FailureIsReported ==
    [][(promise = "rejected" /\ settled.kind = "tooLarge" /\ promise' = "none")
          => /\ settled = TooLarge(getBase64PayloadBytes(lastDataUrl), maxSizeBytes)
             /\ settled.payloadBytes > maxSizeBytes
             /\ imageFileError' =
                   [text |-> "Image too large for QR embedding. Please use Link mode instead.",
                    payloadBytes |-> settled.payloadBytes,
                    limit |-> maxSizeBytes]
             /\ embedDataUrl' = EmptyDataUrl
             /\ isCompressing' = FALSE]_vars

\* C11 witness: the compression of c.png has failed at 1001 bytes against
\* the budget of 1000 and the component shows it.
C11_Witness ==
    /\ imageFile = FileC
    /\ promise = "none"
    /\ imageFileError =
          [text |-> "Image too large for QR embedding. Please use Link mode instead.",
           payloadBytes |-> 1001, limit |-> maxSizeBytes]
    /\ embedDataUrl = EmptyDataUrl
    /\ ~isCompressing
    /\ ~qrCodeGenerated

\* C12: when a new file is selected in embed mode while embedDataUrl holds
\* the payload of another file, that payload is discarded by the selection:
\* embedDataUrl is empty and no render of it stays available for export.
C12_OldPayloadDiscarded ==
    [][(/\ imageMode = "embed"
        /\ embedDataUrl.base64
        /\ offered' # NoFile /\ imageFile' = offered'
        /\ embedDataUrl.of # offered'.name)
          => (embedDataUrl' = EmptyDataUrl /\ ~qrCodeGenerated')]_vars

\* C13: every export that produces a file outputs an encoding of the
\* content resolved at export time (with the current level and colours) at
\* the export resolution, never a rendered image of other content.
C13_ExportsCurrentContent ==
    download # NoDownload
        => download.image =
              Drawn(EncodeCall(World, exportFormat, getQRContent(World),
                               exportResolution))

\* C14: the compressor reports failure before the 50th attempt only when
\* the working width and the working height are both at or below 24 px and
\* the quality is at 0.05.
C14_FailsEarlyOnlyAtBothFloors ==
    (promise = "rejected" /\ settled.kind = "tooLarge" /\ attempts < maxAttempts)
        => /\ width <= FloorDim
           /\ height <= FloorDim
           /\ DblLe(quality, FloorQuality)

\* C15: from each attempt to the next the working width and height never
\* grow, the quality never grows while they stay the same, and no attempt
\* uses a width or height above the initial min(source dimension, 128).
C15_NeverGrows ==
    [][promise = "pending"
          => /\ width' <= width /\ height' <= height
             /\ (width' = width /\ height' = height) => DblLe(quality', quality)
             /\ width' <= Min(img.width, StartDim)
             /\ height' <= Min(img.height, StartDim)]_vars

\* C16: after an attempt that neither succeeds nor terminates, the next
\* attempt keeps width and height and lowers the quality by 0.05 (not
\* below 0.05) if the quality was above 0.05; otherwise it replaces width
\* and height by max(24, floor(0.9 * previous)) and resets the quality to
\* 0.5.  The first attempt uses min(source dimension, 128) and 0.5.
C16_NextAttempt ==
    [][/\ (promise = "loading" /\ promise' = "pending")
          => /\ width' = Min(img.width, StartDim)
             /\ height' = Min(img.height, StartDim)
             /\ quality' = Dbl(45, 0)
       /\ (promise = "pending" /\ promise' = "pending")
          => IF quality.h > 5 \/ (quality.h = 5 /\ quality.e > 0)
             THEN /\ width' = width /\ height' = height
                  /\ quality'.h = Max(5, quality.h - 5)
                  /\ ~DblGt(FloorQuality, quality')
             ELSE /\ 10 * width' <= Max(10 * FloorDim, 9 * width)
                  /\ 10 * width' > Max(10 * (FloorDim - 1), 9 * width - 10)
                  /\ 10 * height' <= Max(10 * FloorDim, 9 * height)
                  /\ 10 * height' > Max(10 * (FloorDim - 1), 9 * height - 10)
                  /\ quality' = StartQuality]_vars

\* C16 witness: a 130x100 source after its 11th attempt, the one at quality
\* 0.05: the next attempt is at 115x90 and quality 0.5.
C16_Witness ==
    /\ img.width = MaxDim /\ img.height = 100
    /\ promise = "pending"
    /\ attempts = 11
    /\ width = 115 /\ height = 90
    /\ quality = StartQuality

\* C17: the object URL created for the source file is revoked at most
\* once, and it has been revoked when the promise settles, on every exit
\* path (resolve, budget rejection, load error).
C17_UrlRevokedOnce ==
    /\ revoked <= 1
    /\ promise \in {"loading", "none"} => revoked = 0
    /\ promise \in {"pending", "resolved", "rejected"}
          => (revoked = 1 /\ objectUrl = "null")

\* C17 witness: an image that does not decode; the promise has rejected
\* with the load error and the URL is revoked.
C17_Witness ==
    /\ ~img.decodes
    /\ promise = "rejected"
    /\ settled = LoadFailed
    /\ revoked = 1
    /\ objectUrl = "null"

\* C18: for a well-formed base64 body of n characters, p of them trailing
\* '=', getBase64PayloadBytes returns 3n/4 - p, and that number, not the
\* length of the data URL, is what the attempt compares with the budget.
C18_DecodedByteCount ==
    (promise # "loading" /\ lastDataUrl.base64)
        => LET n == lastDataUrl.len
               p == lastDataUrl.pad
           IN  /\ 4 * getBase64PayloadBytes(lastDataUrl) = 3 * n - 4 * p
               /\ (promise = "resolved") <=> (3 * n - 4 * p <= 4 * maxSizeBytes)

\* C18 witness: a body of 1336 characters ending in "==" decodes to exactly
\* 1000 bytes and is accepted, its data URL being 1359 characters long.
C18_Witness ==
    /\ promise = "resolved"
    /\ lastDataUrl = DataUrl(1336, 2)
    /\ settled = Resolved(lastDataUrl)
    /\ DataUrlLength(lastDataUrl) > maxSizeBytes

\* C19: every preview object URL created by processImageFile is revoked
\* when it is replaced, when the user switches to link mode and when the
\* component unmounts: the only URL alive is the current preview, and none
\* after the unmount.
C19_PreviewUrlsRevoked ==
    blobUrls \subseteq (IF mounted THEN {imagePreview} ELSE {})

\* C20: one selection of an acceptable file in embed mode (the handler and
\* the effects it triggers) starts exactly one compressImageToSize run.
C20_OneRunPerSelection ==
    [][(imageMode = "embed" /\ offered' # NoFile /\ imageFile' = offered')
          => inflight'[offered'.name] = inflight[offered'.name] + 1]_vars

\* C21: in embed mode, while some compression is in flight, isCompressing
\* is true and the content is not valid.
C21_CompressingWhileInFlight ==
    (inputType = "image" /\ imageMode = "embed" /\ InflightCount(World) > 0)
        => (isCompressing /\ ~hasValidContent(World))

\* C22: for a decoded source at least 128 px wide, the working width is one of
\* 128, 115, 103, 92, 82 and never reaches the 24 px floor; a run whose
\* payload never fits ends by rejecting at the 50th attempt, at width 82.
C22_EndsByExhaustion ==
    (/\ img.width >= StartDim /\ img.decodes
     /\ promise \in {"pending", "resolved", "rejected"})
        => /\ width \in {128, 115, 103, 92, 82}
           /\ width > FloorDim
           /\ (promise = "rejected")
                 => /\ settled.kind = "tooLarge"
                    /\ attempts = maxAttempts
                    /\ width = 82

\* C22 witness: a 130 px wide source has been rejected at its 50th attempt,
\* the sixth at width 82.
C22_Witness ==
    /\ img.width = MaxDim /\ img.decodes
    /\ promise = "rejected"
    /\ settled.kind = "tooLarge"
    /\ attempts = maxAttempts
    /\ width = 82
    /\ quality = Dbl(25, 6)

====
